---- MODULE Spec2Model ----
(***************************************************************************)
(* The chat widget of frontend/static/js/chat.js as a state machine.       *)
(*                                                                         *)
(* Strings are sequences of one-character strings, so that trim, slice and *)
(* the regular-expression replacements are computed as the script computes *)
(* them.  A JavaScript value is a record tagged by its type (t).           *)
(***************************************************************************)
EXTENDS Integers, Sequences, FiniteSets, TLC

VARIABLES
  messages,          \* state.messages
  loading,           \* state.loading
  elInput,           \* elInput.value
  elCounter,         \* elCounter.textContent
  elMessages,        \* the children of elMessages, as render() left them
  themeDark,         \* root.classList contains "theme-dark"
  btnTheme,          \* btnTheme.textContent
  localStorageTheme, \* localStorage.getItem("theme")
  INPUT_LIMIT,       \* the constant of line 4, read from window at load
  fetches,           \* every fetch() call made so far, in order
  pending,           \* the send() calls suspended at an await
  consoleErrors,     \* number of console.error calls
  unhandled,         \* number of send() promises that rejected
  nAccepted,         \* number of send() calls that passed the guard
  lastEvent          \* the event-loop step that produced this state

vars == <<messages, loading, elInput, elCounter, elMessages, themeDark,
          btnTheme, localStorageTheme, INPUT_LIMIT, fetches, pending,
          consoleErrors, unhandled, nAccepted, lastEvent>>

-----------------------------------------------------------------------------
(* Bounds of the model.                                                    *)

\* accepted submits per session in Spec
MaxTurns == 2
\* accepted submits per session in SpecLong (history longer than 12)
MaxTurnsLong == 7
\* length of the longest text typed in SpecLimit
MaxTyped == 4
\* accepted submits per session in SpecLimit
MaxTurnsLimit == 1
\* length of the longest answer over FormatAlphabet in SpecFormat
MaxLen == 4

-----------------------------------------------------------------------------
(* JavaScript values.                                                      *)

Undefined == [t |-> "undefined"]
Null == [t |-> "null"]
Str(s) == [t |-> "string", s |-> s]
Num(n) == [t |-> "number", n |-> n]
Obj(f) == [t |-> "object", f |-> f]
Arr(a) == [t |-> "array", a |-> a]

\* ToBoolean, as used by || and by if
Truthy(v) ==
  CASE v.t = "undefined" -> FALSE
    [] v.t = "null" -> FALSE
    [] v.t = "string" -> v.s # <<>>
    [] v.t = "number" -> v.n # 0
    [] OTHER -> TRUE

\* a || b
Or(a, b) == IF Truthy(a) THEN a ELSE b

\* v?.key for a property name
OptGet(v, key) ==
  CASE v.t = "object" -> IF key \in DOMAIN v.f THEN v.f[key] ELSE Undefined
    [] OTHER -> Undefined

\* v?.[i] for an index i >= 0
OptIndex(v, i) ==
  CASE v.t = "array" -> IF i < Len(v.a) THEN v.a[i + 1] ELSE Undefined
    [] v.t = "string" -> IF i < Len(v.s) THEN Str(<<v.s[i + 1]>>) ELSE Undefined
    [] OTHER -> Undefined

-----------------------------------------------------------------------------
(* String primitives.                                                      *)

\* the characters String.prototype.trim removes and \s matches
IsSpace(c) == c \in {" ", "\t", "\n", "\r"}

\* the characters . does not match
IsLineTerminator(c) == c \in {"\n", "\r"}

Min(S) == CHOOSE x \in S : \A y \in S : x <= y
Max(S) == CHOOSE x \in S : \A y \in S : x >= y

\* the indices of the characters of s that trim() keeps at either end
NonSpaceAt(s) == {i \in 1..Len(s) : ~IsSpace(s[i])}

\* String.prototype.trim
Trim(s) ==
  IF NonSpaceAt(s) = {}
    THEN <<>>
    ELSE SubSeq(s, Min(NonSpaceAt(s)), Max(NonSpaceAt(s)))

\* the index ToIntegerOrInfinity and the clamping of slice() give
SliceIndex(i, len) ==
  IF i < 0 THEN (IF len + i < 0 THEN 0 ELSE len + i)
           ELSE (IF i > len THEN len ELSE i)

\* s.slice(start, end) of a string or an array (0-based, end exclusive)
Slice(s, start, end) ==
  SubSeq(s, SliceIndex(start, Len(s)) + 1, SliceIndex(end, Len(s)))

\* s.slice(start)
SliceFrom(s, start) == Slice(s, start, Len(s))

-----------------------------------------------------------------------------
(* Program constants.                                                      *)

GreetingText ==
  <<"H", "a", "l", "o", "!", " ", "S", "a", "y", "a", " ", "*", "*", "C",
    "C", "C", "C", ".", "A", "I", "*", "*", ".", " ", "T", "a", "n", "y",
    "a", "k", "a", "n", " ", "a", "p", "a", " ", "p", "u", "n", " ", "t",
    "e", "n", "t", "a", "n", "g", " ", "C", "C", " ", "C", "u", "p", " ",
    "X", "L", " ", "(", "c", "c", "c", "u", "p", ".", "i", "d", ")", ".">>

EmptyNoticeText ==
  <<"M", "a", "a", "f", ",", " ", "r", "e", "s", "p", "o", "n", "s", " ",
    "k", "o", "s", "o", "n", "g", ".">>

ErrorText ==
  <<"M", "a", "a", "f", ",", " ", "t", "e", "r", "j", "a", "d", "i", " ",
    "k", "e", "s", "a", "l", "a", "h", "a", "n", " ", "s", "a", "a", "t",
    " ", "m", "e", "n", "g", "h", "u", "b", "u", "n", "g", "i", " ", "s",
    "e", "r", "v", "e", "r", ".">>

Greeting == [role |-> "assistant", content |-> Str(GreetingText)]

ErrorMessage == [role |-> "assistant", content |-> Str(ErrorText)]

\* window.API_BASE is left unset: same-origin
API_BASE == ""

\* the default of INPUT_LIMIT
DefaultInputLimit == 350

\* the size of the context window sent to the server
ContextSize == 12

-----------------------------------------------------------------------------
(* Rendering: escapeHTML, liteMarkdown, bubble, render.                    *)

EscapeChar(c) ==
  CASE c = "&" -> <<"&", "a", "m", "p", ";">>
    [] c = "<" -> <<"&", "l", "t", ";">>
    [] c = ">" -> <<"&", "g", "t", ";">>
    [] OTHER -> <<c>>

\* the replacements of the characters lo..hi of s, concatenated
RECURSIVE EscapeFrom(_, _, _)
EscapeFrom(s, lo, hi) ==
  IF lo > hi
    THEN <<>>
    ELSE IF lo = hi
      THEN EscapeChar(s[lo])
      ELSE LET mid == (lo + hi) \div 2
           IN  EscapeFrom(s, lo, mid) \o EscapeFrom(s, mid + 1, hi)

\* escapeHTML(s) throws when (s || "") has no replace method
escapeHTMLThrows(v) == Or(v, Str(<<>>)).t # "string"

\* escapeHTML(s): (s || "").replace(/[&<>]/g, ...)
escapeHTML(v) ==
  LET s == Or(v, Str(<<>>)).s IN EscapeFrom(s, 1, Len(s))

TwoStarsAt(s, i) == i + 1 <= Len(s) /\ s[i] = "*" /\ s[i + 1] = "*"

\* the end of the lazy group (.+?) of a match that starts with the ** at i:
\* the least j >= i + 2 with no line terminator in i+2..j and ** right
\* after j; 0 when there is none
BoldClose(s, i) ==
  IF ~TwoStarsAt(s, i)
    THEN 0
    ELSE LET ends == {j \in (i + 2)..(Len(s) - 2) :
                        /\ TwoStarsAt(s, j + 1)
                        /\ \A k \in (i + 2)..j : ~IsLineTerminator(s[k])}
         IN  IF ends = {} THEN 0 ELSE Min(ends)

StrongOpen == <<"<", "s", "t", "r", "o", "n", "g", ">">>
StrongClose == <<"<", "/", "s", "t", "r", "o", "n", "g", ">">>

\* out.replace(/\*\*(.+?)\*\*/g, "<strong>$1</strong>"), from index i on:
\* the leftmost match, then the rest after it
RECURSIVE BoldFrom(_, _)
BoldFrom(s, i) ==
  LET starts == {k \in i..Len(s) : BoldClose(s, k) # 0}
  IN  IF starts = {}
        THEN SubSeq(s, i, Len(s))
        ELSE LET k == Min(starts)
                 j == BoldClose(s, k)
             IN  SubSeq(s, i, k - 1) \o StrongOpen \o SubSeq(s, k + 2, j)
                   \o StrongClose \o BoldFrom(s, j + 3)

\* the last index of the run of characters satisfying \s that starts at i
\* (i - 1 when s[i] is no such character)
SpaceRunEnd(s, i) ==
  Min({k \in i..Len(s) : ~IsSpace(s[k])} \cup {Len(s) + 1}) - 1

\* the last index of the run of characters . matches that starts at i
DotRunEnd(s, i) ==
  Min({k \in i..Len(s) : IsLineTerminator(s[k])} \cup {Len(s) + 1}) - 1

\* \s+ is greedy and gives characters back until (.+) can start: the start
\* of the group when \s+ began at first and its run ends at w, or 0
BulletGroupStart(s, first, w) ==
  LET gs == {g \in (first + 1)..(w + 1) :
               g <= Len(s) /\ ~IsLineTerminator(s[g])}
  IN  IF gs = {} THEN 0 ELSE Max(gs)

\* [*-]\s+(.+) with the marker at index m: the group's start, or 0
BulletAt(s, m) ==
  IF m <= Len(s) /\ s[m] \in {"*", "-"}
    THEN BulletGroupStart(s, m + 1, SpaceRunEnd(s, m + 1))
    ELSE 0

\* (^|\n)[*-]\s+(.+) matched at index k: the group's start, or 0; ^ matches
\* at the start of the string only and is tried before \n
BulletMatch(s, k) ==
  IF k = 1 /\ BulletAt(s, 1) # 0
    THEN BulletAt(s, 1)
    ELSE IF s[k] = "\n" THEN BulletAt(s, k + 1) ELSE 0

\* "U+2022" stands for the one character U+2022 (the bullet)
BulletGlyph == <<"U+2022", " ">>

\* out.replace(/(^|\n)[*-]\s+(.+)/g, (_m, p1, p2) => p1 + bullet + " " + p2),
\* from index i on: the leftmost match, then the rest after it
RECURSIVE BulletsFrom(_, _)
BulletsFrom(s, i) ==
  LET starts == {k \in i..Len(s) : BulletMatch(s, k) # 0}
  IN  IF starts = {}
        THEN SubSeq(s, i, Len(s))
        ELSE LET k == Min(starts)
                 g == BulletMatch(s, k)
                 e == DotRunEnd(s, g)
                 p1 == IF k = 1 /\ BulletAt(s, 1) # 0 THEN <<>> ELSE <<"\n">>
             IN  SubSeq(s, i, k - 1) \o p1 \o BulletGlyph \o SubSeq(s, g, e)
                   \o BulletsFrom(s, e + 1)

BreakChar(c) == IF c = "\n" THEN <<"<", "b", "r", ">">> ELSE <<c>>

\* out.replace(/\n/g, "<br>") of the characters lo..hi of s
RECURSIVE BreaksFrom(_, _, _)
BreaksFrom(s, lo, hi) ==
  IF lo > hi
    THEN <<>>
    ELSE IF lo = hi
      THEN BreakChar(s[lo])
      ELSE LET mid == (lo + hi) \div 2
           IN  BreaksFrom(s, lo, mid) \o BreaksFrom(s, mid + 1, hi)

liteMarkdownThrows(v) == escapeHTMLThrows(Or(v, Str(<<>>)))

\* a variant of liteMarkdown that escapes after the other replacements
liteMarkdownEscapesLast(v) ==
  CHOOSE out \in
    { EscapeFrom(breaks, 1, Len(breaks)) :
        breaks \in { BreaksFrom(bullets, 1, Len(bullets)) :
          bullets \in { BulletsFrom(bold, 1) :
            bold \in { BoldFrom(Or(v, Str(<<>>)).s, 1) } } } } : TRUE

\* liteMarkdown(s): escape, bold, bullets, newlines; each replacement reads
\* the finished result of the one before it
liteMarkdown(v) ==
  CHOOSE out \in
    { BreaksFrom(bullets, 1, Len(bullets)) :
        bullets \in { BulletsFrom(bold, 1) :
          bold \in { BoldFrom(escaped, 1) :
            escaped \in { escapeHTML(Or(v, Str(<<>>))) } } } } : TRUE

\* bubble(role, html): the wrapper div and the bubble div inside it
bubble(role, html) ==
  [className |-> "msg " \o (IF role = "user" THEN "right" ELSE "left"),
   child |->
     [className |->
        "bubble " \o (IF role = "user" THEN "bubble-user" ELSE "bubble-bot"),
      innerHTML |-> html]]

\* the element of lines 51-53 (its text ends with the character U+2026)
TypingIndicator ==
  [className |-> "typing bubble bubble-bot",
   textContent |-> "CCCC.AI sedang mengetik..."]

\* the first message whose formatting throws, or Len(msgs) + 1
FirstThrowing(msgs) ==
  Min({i \in 1..Len(msgs) : liteMarkdownThrows(msgs[i].content)}
        \cup {Len(msgs) + 1})

renderThrows(msgs) == FirstThrowing(msgs) <= Len(msgs)

\* render(): the children of elMessages afterwards.  When formatting a
\* message throws, the children appended before it stay and nothing follows.
\* The scroll position (line 56) is layout and is left out.
render(msgs, ld) ==
  LET n == FirstThrowing(msgs) - 1
      bubbles == [i \in 1..n |->
                    bubble(msgs[i].role, liteMarkdown(msgs[i].content))]
  IN  IF n = Len(msgs) /\ ld
        THEN Append(bubbles, TypingIndicator)
        ELSE bubbles


-----------------------------------------------------------------------------
(* Inputs of the environment.                                              *)

\* window.INPUT_LIMIT as the page may set it
WindowInputLimit == {Undefined, Num(0), Num(2), Num(3)}

\* localStorage "theme" as an earlier session may have left it
StoredThemes == {"unset", "dark", "light"}

\* what an edit of the textarea may leave in it
TypedValues == {<<>>, <<" ">>, <<" ", "a", " ">>}

TypedValuesLong == {<<" ", "a", " ">>, <<"b">>}

\* the texts "", "a", "ab", "abc", ... typed in SpecLimit
Letters == <<"a", "b", "c", "d", "e", "f", "g", "h">>
TypedValuesLimit == {SubSeq(Letters, 1, n) : n \in 0..MaxTyped}

\* the HTTP statuses of the responses
Statuses == {200, 500}

\* keydown events
KeyEvents ==
  { [key |-> "Enter", shiftKey |-> FALSE, isComposing |-> FALSE],
    [key |-> "Enter", shiftKey |-> TRUE, isComposing |-> FALSE],
    [key |-> "Enter", shiftKey |-> FALSE, isComposing |-> TRUE] }

HiText == <<"H", "i", " ", "t", "h", "e", "r", "e">>
YoText == <<"Y", "o">>

\* an OpenAI-style choices array whose first message has content c
Choices(c) == Arr(<<Obj([message |-> Obj([content |-> c])])>>)

\* the values resp.json() may resolve with
Bodies ==
  { Obj([content |-> Str(HiText)]),
    Obj([choices |-> Choices(Str(YoText))]),
    Obj([content |-> Str(HiText), choices |-> Choices(Str(YoText))]),
    Obj([content |-> Str(<<>>), choices |-> Choices(Str(YoText))]),
    Obj([content |-> Str(<<>>)]),
    Obj([content |-> Null, choices |-> Arr(<<>>)]),
    Obj([choices |-> Str(YoText)]),
    Null,
    Obj([content |-> Num(5)]) }

BodiesLong == { Obj([content |-> Str(HiText)]) }

\* the answers of SpecFormat: every text of up to MaxLen characters over
\* FormatAlphabet, and some longer ones
FormatAlphabet == {"&", "<", ">", "*", "-", " ", "\n"}

ScriptText == <<"<", "s", "c", "r", "i", "p", "t", ">">>
BoldText == <<"*", "*", "b", "o", "l", "d", "*", "*">>
BulletsText == <<"-", " ", "a", "\n", "-", " ", "b">>

FormatExamples ==
  { ScriptText, BoldText, BulletsText,
    <<"*", "*", "<", "*", "*">>,
    <<"*", " ", "*", "*", "&", "*", "*">>,
    <<"a", "\n", "*", " ", "<", "b", ">">>,
    <<"*", "*", "a", "\n", "b", "*", "*">> }

FormatTexts ==
  (UNION {[1..n -> FormatAlphabet] : n \in 1..MaxLen}) \cup FormatExamples

BodiesFormat == {Obj([content |-> Str(text)]) : text \in FormatTexts}

-----------------------------------------------------------------------------
(* The handlers.                                                           *)

\* Number(window.INPUT_LIMIT || 350)
InputLimitOf(w) == Or(w, Num(DefaultInputLimit)).n

\* updateCounter() on an input holding value: the value and the counter text
\* afterwards (the text is `${length} / ${INPUT_LIMIT} characters`).  The
\* height autoGrow() gives the textarea is layout and is left out.
\* a variant of line 63 that reads the length before line 62 truncates
updateCounterStaleLength(value, limit) ==
  LET v == IF Len(value) > limit THEN Slice(value, 0, limit) ELSE value
  IN  [value |-> v, counter |-> <<Len(value), "/", limit, "characters">>]

updateCounter(value, limit) ==
  LET v == IF Len(value) > limit THEN Slice(value, 0, limit) ELSE value
  IN  [value |-> v, counter |-> <<Len(v), "/", limit, "characters">>]

\* variants of the guard of line 76 that test one condition only
sendIgnoresOnlyEmpty(text, ld) == text = <<>>
sendIgnoresOnlyLoading(text, ld) == ld

\* line 76: send() returns at once
sendIgnores(text, ld) == text = <<>> \/ ld

\* a variant of lines 88-89 without the slice(1) that omits the greeting
last12KeepsGreeting(msgs) == SliceFrom(msgs, 0 - ContextSize)

\* lines 88-89: the context sent to the server
last12(msgs) == SliceFrom(SliceFrom(msgs, 1), 0 - ContextSize)

\* lines 85-95: the fetch() call
request(msgs) ==
  [url |-> API_BASE \o "/v1/chat/completions", method |-> "POST",
   contentType |-> "application/json", body |-> [messages |-> last12(msgs)]]

\* lines 98-100
answerOf(data) ==
  Or(Or(OptGet(data, "content"),
        OptGet(OptGet(OptIndex(OptGet(data, "choices"), 0), "message"),
               "content")),
     Str(EmptyNoticeText))

\* a variant of lines 104-107 that puts the error message in the place of
\* the message that failed
afterFailureDropsUser(msgs) ==
  Append(SubSeq(msgs, 1, Len(msgs) - 1), ErrorMessage)

\* lines 104-107
afterFailure(msgs) == Append(msgs, ErrorMessage)

\* a variant of line 101 that appends nothing when the body holds no answer
afterSuccessSkipsEmpty(msgs, data) ==
  IF answerOf(data) = Str(EmptyNoticeText)
    THEN msgs
    ELSE Append(msgs, [role |-> "assistant", content |-> answerOf(data)])

\* line 101
afterSuccess(msgs, data) ==
  Append(msgs, [role |-> "assistant", content |-> answerOf(data)])

\* lines 108-111 run with the transcript msgs
Finally(msgs) ==
  /\ loading' = FALSE
  /\ elMessages' = render(msgs, FALSE)
  /\ unhandled' = IF renderThrows(msgs) THEN unhandled + 1 ELSE unhandled

\* send(), called by the event ev; max caps the accepted submits
Send(ev, max) ==
  LET text == Trim(elInput)
  IN  /\ lastEvent' = ev
      /\ UNCHANGED <<themeDark, btnTheme, localStorageTheme, INPUT_LIMIT,
                     consoleErrors>>
      /\ IF sendIgnores(text, loading)
           THEN UNCHANGED <<messages, loading, elInput, elCounter, elMessages,
                            fetches, pending, unhandled, nAccepted>>
           ELSE LET msgs == Append(messages,
                                   [role |-> "user", content |-> Str(text)])
                    uc == updateCounter(<<>>, INPUT_LIMIT)
                IN  /\ nAccepted < max
                    /\ nAccepted' = nAccepted + 1
                    /\ messages' = msgs
                    /\ elInput' = uc.value
                    /\ elCounter' = uc.counter
                    /\ loading' = TRUE
                    /\ elMessages' = render(msgs, TRUE)
                    /\ IF renderThrows(msgs)
                         THEN /\ unhandled' = unhandled + 1
                              /\ UNCHANGED <<fetches, pending>>
                         ELSE /\ fetches' = Append(fetches, request(msgs))
                              /\ pending' = pending \cup
                                   {[id |-> Len(fetches) + 1, at |-> "fetch",
                                     status |-> 0]}
                              /\ UNCHANGED unhandled

\* elSend "click"
ClickSend(max) == Send([type |-> "click"], max)

\* elInput "keydown"
Keydown(e, max) ==
  IF ~e.isComposing /\ e.key = "Enter" /\ ~e.shiftKey
    THEN Send([type |-> "enter"], max)
    ELSE /\ lastEvent' = [type |-> "keydown"]
         /\ UNCHANGED <<messages, loading, elInput, elCounter, elMessages,
                        themeDark, btnTheme, localStorageTheme, INPUT_LIMIT,
                        fetches, pending, consoleErrors, unhandled, nAccepted>>

\* a variant of the listener below on a page that takes no edits while a
\* request is awaited
InputEventWhenIdle(v) ==
  LET uc == updateCounter(v, INPUT_LIMIT)
  IN  /\ ~loading
      /\ elInput' = uc.value
      /\ elCounter' = uc.counter
      /\ lastEvent' = [type |-> "input", value |-> v]
      /\ UNCHANGED <<messages, loading, elMessages, themeDark, btnTheme,
                     localStorageTheme, INPUT_LIMIT, fetches, pending,
                     consoleErrors, unhandled, nAccepted>>

\* elInput "input", after an edit that left v in the textarea
InputEvent(v) ==
  LET uc == updateCounter(v, INPUT_LIMIT)
  IN  /\ elInput' = uc.value
      /\ elCounter' = uc.counter
      /\ lastEvent' = [type |-> "input", value |-> v]
      /\ UNCHANGED <<messages, loading, elMessages, themeDark, btnTheme,
                     localStorageTheme, INPUT_LIMIT, fetches, pending,
                     consoleErrors, unhandled, nAccepted>>

\* a variant of lines 134-137 that reads the class before toggling it
toggleThemeStoresPrevious(dark) ==
  [dark |-> ~dark,
   button |-> IF dark THEN "sun" ELSE "moon",
   stored |-> IF dark THEN "dark" ELSE "light"]

\* lines 134-137 on a page whose dark class is present iff dark: the class,
\* the button text and the stored preference afterwards; "sun" and "moon"
\* stand for the two emoji of the button
toggleTheme(dark) ==
  [dark |-> ~dark,
   button |-> IF ~dark THEN "sun" ELSE "moon",
   stored |-> IF ~dark THEN "dark" ELSE "light"]

\* btnTheme "click"
ToggleTheme ==
  LET t == toggleTheme(themeDark)
  IN  /\ themeDark' = t.dark
      /\ btnTheme' = t.button
      /\ localStorageTheme' = t.stored
      /\ lastEvent' = [type |-> "theme"]
      /\ UNCHANGED <<messages, loading, elInput, elCounter, elMessages,
                     INPUT_LIMIT, fetches, pending, consoleErrors, unhandled,
                     nAccepted>>

\* the catch and finally blocks of the send() call p
Fail(p, ev) ==
  /\ messages' = afterFailure(messages)
  /\ consoleErrors' = consoleErrors + 1
  /\ Finally(afterFailure(messages))
  /\ pending' = pending \ {p}
  /\ lastEvent' = ev
  /\ UNCHANGED <<elInput, elCounter, themeDark, btnTheme, localStorageTheme,
                 INPUT_LIMIT, fetches, nAccepted>>

\* line 91: the fetch() promise of p rejects
FetchRejects(p) ==
  /\ p.at = "fetch"
  /\ Fail(p, [type |-> "fetchRejected"])

\* resp.ok
respOk(status) == status \in 200..299

\* a variant of line 96 without the test of resp.ok
afterFetchIgnoresStatus(status) == "json"

\* the position of send() after fetch() resolved: line 96 awaits resp.text()
\* when the status is not 2xx, line 97 awaits resp.json() otherwise
afterFetch(status) == IF respOk(status) THEN "json" ELSE "text"

\* a variant of the step below that resets loading as soon as the response
\* arrives, before its body is read
FetchResolvesClearsLoading(p, status) ==
  /\ p.at = "fetch"
  /\ pending' = (pending \ {p}) \cup
       {[p EXCEPT !.at = afterFetch(status), !.status = status]}
  /\ lastEvent' = [type |-> "response", status |-> status]
  /\ loading' = FALSE
  /\ UNCHANGED <<messages, elInput, elCounter, elMessages, themeDark,
                 btnTheme, localStorageTheme, INPUT_LIMIT, fetches,
                 consoleErrors, unhandled, nAccepted>>

\* line 91: the fetch() promise of p resolves with a response; loading stays
\* as it is until the body has been read
FetchResolves(p, status) ==
  /\ p.at = "fetch"
  /\ pending' = (pending \ {p}) \cup
       {[p EXCEPT !.at = afterFetch(status), !.status = status]}
  /\ lastEvent' = [type |-> "response", status |-> status]
  /\ UNCHANGED <<messages, loading, elInput, elCounter, elMessages, themeDark,
                 btnTheme, localStorageTheme, INPUT_LIMIT, fetches,
                 consoleErrors, unhandled, nAccepted>>

\* line 96: resp.text() settles (resolved or rejected); the Error is thrown
TextSettles(p) ==
  /\ p.at = "text"
  /\ Fail(p, [type |-> "httpError"])

\* line 97: resp.json() rejects
JsonRejects(p) ==
  /\ p.at = "json"
  /\ Fail(p, [type |-> "jsonRejected"])

\* line 97: resp.json() resolves with data
JsonResolves(p, data) ==
  /\ p.at = "json"
  /\ messages' = afterSuccess(messages, data)
  /\ Finally(afterSuccess(messages, data))
  /\ pending' = pending \ {p}
  /\ lastEvent' = [type |-> "jsonResolved", data |-> data]
  /\ UNCHANGED <<elInput, elCounter, themeDark, btnTheme, localStorageTheme,
                 INPUT_LIMIT, fetches, consoleErrors, nAccepted>>

-----------------------------------------------------------------------------
(* The specifications.                                                     *)

\* the state after the script ran (lines 1-20, 125-132) on a page that set
\* window.INPUT_LIMIT to w, with stored under the key "theme"
Load(w, stored) ==
  /\ messages = <<Greeting>>
  /\ loading = FALSE
  /\ INPUT_LIMIT = InputLimitOf(w)
  /\ elInput = updateCounter(<<>>, InputLimitOf(w)).value
  /\ elCounter = updateCounter(<<>>, InputLimitOf(w)).counter
  /\ elMessages = render(<<Greeting>>, FALSE)
  /\ localStorageTheme = stored
  /\ themeDark = (stored = "dark")
  /\ btnTheme = IF stored = "dark" THEN "sun" ELSE "moon"
  /\ fetches = <<>>
  /\ pending = {}
  /\ consoleErrors = 0
  /\ unhandled = 0
  /\ nAccepted = 0
  /\ lastEvent = [type |-> "load"]

\* the page is reloaded: the script runs again on a new document, with what
\* localStorage holds; the calls the old page awaited are gone with it
Reload ==
  /\ messages' = <<Greeting>>
  /\ loading' = FALSE
  /\ INPUT_LIMIT' = INPUT_LIMIT
  /\ elInput' = updateCounter(<<>>, INPUT_LIMIT).value
  /\ elCounter' = updateCounter(<<>>, INPUT_LIMIT).counter
  /\ elMessages' = render(<<Greeting>>, FALSE)
  /\ localStorageTheme' = localStorageTheme
  /\ themeDark' = (localStorageTheme = "dark")
  /\ btnTheme' = IF localStorageTheme = "dark" THEN "sun" ELSE "moon"
  /\ fetches' = <<>>
  /\ pending' = {}
  /\ consoleErrors' = 0
  /\ unhandled' = 0
  /\ nAccepted' = 0
  /\ lastEvent' = [type |-> "reload", dropped |-> Len(messages) - 1]

\* a page that leaves window.INPUT_LIMIT unset
Init == \E stored \in StoredThemes : Load(Undefined, stored)

\* the network settles a promise that a send() call awaits
Settle ==
  \/ \E p \in pending : FetchRejects(p)
  \/ \E p \in pending, status \in Statuses : FetchResolves(p, status)
  \/ \E p \in pending : TextSettles(p)
  \/ \E p \in pending : JsonRejects(p)
  \/ \E p \in pending, data \in Bodies : JsonResolves(p, data)

Next ==
  \/ \E v \in TypedValues : InputEvent(v)
  \/ ClickSend(MaxTurns)
  \/ \E e \in KeyEvents : Keydown(e, MaxTurns)
  \/ ToggleTheme
  \/ Settle

Spec == Init /\ [][Next]_vars

\* a long session: default configuration, few inputs, many turns
InitLong == Load(Undefined, "unset")

NextLong ==
  \/ \E v \in TypedValuesLong : InputEvent(v)
  \/ ClickSend(MaxTurnsLong)
  \/ \E p \in pending : FetchResolves(p, 200)
  \/ \E p \in pending, data \in BodiesLong : JsonResolves(p, data)

SpecLong == InitLong /\ [][NextLong]_vars

\* pages that configure the limit: long texts typed, one exchange that fails
InitLimit == \E w \in WindowInputLimit : Load(w, "unset")

NextLimit ==
  \/ \E v \in TypedValuesLimit : InputEvent(v)
  \/ ClickSend(MaxTurnsLimit)
  \/ \E p \in pending : FetchRejects(p)

SpecLimit == InitLimit /\ [][NextLimit]_vars

\* sessions in which the page is reloaded
NextTheme ==
  \/ ToggleTheme
  \/ Reload
  \/ \E v \in TypedValues : InputEvent(v)
  \/ ClickSend(MaxTurns)
  \/ Settle

SpecTheme == Init /\ [][NextTheme]_vars

\* pages that are reloaded after one exchange (typed and submitted on the
\* fresh page), whose answer is any of FormatTexts
NextFormat ==
  \/ messages = <<Greeting>> /\ InputEvent(<<"a">>)
  \/ messages = <<Greeting>> /\ ClickSend(MaxTurns)
  \/ \E p \in pending : FetchResolves(p, 200)
  \/ \E p \in pending, data \in BodiesFormat : JsonResolves(p, data)
  \/ Reload

SpecFormat == InitLong /\ [][NextFormat]_vars


-----------------------------------------------------------------------------
(* The claims.                                                             *)

IsPrefix(s, u) == Len(s) <= Len(u) /\ SubSeq(u, 1, Len(s)) = s

\* the events that call send()
SubmitEvents == {"click", "enter"}

\* the events that end a send() call with a failure
FailureEvents == {"fetchRejected", "httpError", "jsonRejected"}

\* the events that end a send() call
SettleEvents == FailureEvents \cup {"jsonResolved"}

UserMessage(text) == [role |-> "user", content |-> Str(text)]

\* C1: a submit made while loading is true, or with input that is empty
\* after trimming, changes neither the messages, the loading flag, the input,
\* the requests issued nor anything shown, and logs no error.
C1_RejectedSubmitNoEffect ==
  [][(/\ lastEvent'.type \in SubmitEvents
      /\ (loading \/ Trim(elInput) = <<>>))
       => UNCHANGED <<messages, loading, elInput, elCounter, elMessages,
                      fetches, pending, consoleErrors, unhandled,
                      nAccepted>>]_vars

\* a submit was made while a request was outstanding and text was typed
C1_Witness ==
  /\ lastEvent.type = "click"
  /\ loading
  /\ pending # {}
  /\ Trim(elInput) = <<"a">>

\* C2: at most one request is in flight, it is the one issued last, and no
\* request is issued beyond the accepted submits.
C2_AtMostOneInFlight ==
  /\ Cardinality(pending) <= 1
  /\ \A p \in pending : p.id = Len(fetches)
  /\ Len(fetches) <= nAccepted

\* Enter was pressed with text typed while a request was in flight
C2_Witness ==
  /\ lastEvent.type = "enter"
  /\ Cardinality(pending) = 1
  /\ Trim(elInput) = <<"a">>
  /\ Len(fetches) = 1

\* C3: loading is true exactly while a request issued by send() is
\* outstanding.
C3_LoadingIffOutstanding == loading <=> pending # {}

\* C4: a failed exchange (fetch rejected, status not 2xx, body not JSON)
\* appends exactly the fixed error message after the user's message and
\* leaves loading false.
C4_FailureAppendsErrorMessage ==
  [][(\/ lastEvent'.type \in FailureEvents
      \/ \E p \in pending : p \notin pending' /\ p.status = 500)
       => /\ messages' = Append(messages, ErrorMessage)
          /\ messages[Len(messages)].role = "user"
          /\ ~loading']_vars

\* the scenario of a response with status 500
C4_Witness ==
  /\ lastEvent.type = "httpError"
  /\ messages = <<Greeting, UserMessage(<<"a">>), ErrorMessage>>
  /\ ~loading

\* the content field of a body, and the nested one
TopContent(data) == OptGet(data, "content")
NestedContent(data) ==
  OptGet(OptGet(OptIndex(OptGet(data, "choices"), 0), "message"), "content")

\* C5: a successful exchange appends exactly one assistant message: the
\* body's content if present, else choices[0].message.content if present,
\* else the empty-response notice; it never appends the error message and
\* never fails.
C5_SuccessAppendsAnswer ==
  [][lastEvent'.type = "jsonResolved"
       => LET data == lastEvent'.data
              answer ==
                IF TopContent(data) # Undefined THEN TopContent(data)
                ELSE IF NestedContent(data) # Undefined
                  THEN NestedContent(data)
                  ELSE Str(EmptyNoticeText)
          IN  /\ messages' =
                   Append(messages, [role |-> "assistant", content |-> answer])
              /\ messages'[Len(messages')] # ErrorMessage
              /\ unhandled' = unhandled
              /\ ~loading']_vars

\* the transcript without the greeting, cut to its last 12 entries
ExpectedBody(msgs) ==
  LET n == IF Len(msgs) - 1 < 12 THEN Len(msgs) - 1 ELSE 12
  IN  [i \in 1..n |-> msgs[Len(msgs) - n + i]]

\* C6: the request issued by a submit carries the transcript without the
\* greeting, cut to its last min(N, 12) entries in order; the greeting is
\* never in it.
C6_BodyIsLast12 ==
  [][fetches' # fetches
       => /\ Len(fetches') = Len(fetches) + 1
          /\ fetches'[Len(fetches')].body.messages = ExpectedBody(messages')
          /\ \A i \in 1..Len(fetches'[Len(fetches')].body.messages) :
               fetches'[Len(fetches')].body.messages[i] # Greeting]_vars

\* a request issued with more than 12 messages after the greeting
C6_Witness ==
  /\ pending # {}
  /\ Len(messages) - 1 > 12
  /\ Len(fetches[Len(fetches)].body.messages) = 12
  /\ fetches[Len(fetches)].body.messages[12] = messages[Len(messages)]

\* C7: every accepted submit issues exactly one request.
C7_OneRequestPerAcceptedSubmit == Len(fetches) = nAccepted

\* C8: if every request settles, every accepted submit is followed by a state
\* where loading is false and one assistant message follows its user message.
\* Stated on states: a submit that waits for its answer has its request
\* outstanding (so that the request's settling answers it), and when none
\* waits every accepted submit has its one assistant message.  In a state
\* that breaks the first part nothing is left to settle, and loading stays
\* true in every continuation.
C8_AcceptedSubmitIsAnswered ==
  /\ loading => \E p \in pending : p.id = nAccepted
  /\ ~loading =>
       /\ Len(messages) = 2 * nAccepted + 1
       /\ \A k \in 1..nAccepted :
            /\ messages[2 * k].role = "user"
            /\ messages[2 * k + 1].role = "assistant"

\* C9: every step extends the transcript or leaves it alone, and the first
\* message stays the greeting.
C9_AppendOnly ==
  [][IsPrefix(messages, messages') /\ messages'[1] = Greeting]_vars

\* a failed exchange left the user's message in place
C9_Witness ==
  /\ lastEvent.type = "fetchRejected"
  /\ Len(messages) = 3
  /\ messages[2] = UserMessage(<<"a">>)
  /\ messages[3] = ErrorMessage

\* C10: loading becomes true only in an accepted submit and false only in a
\* step that settles the request; while it is true, no other step resets it,
\* appends a message, issues a request or accepts a submit.
C10_LoadingFlips ==
  [][/\ (~loading /\ loading')
          => lastEvent'.type \in SubmitEvents /\ nAccepted' = nAccepted + 1
     /\ (loading /\ ~loading')
          => /\ lastEvent'.type \in SettleEvents
             /\ \E p \in pending : pending' = pending \ {p}
     /\ (loading /\ lastEvent'.type \notin SettleEvents)
          => /\ loading'
             /\ messages' = messages
             /\ fetches' = fetches
             /\ nAccepted' = nAccepted]_vars

\* the theme was toggled and the input edited while the request is awaited
C10_Witness ==
  /\ loading
  /\ pending # {}
  /\ lastEvent.type = "theme"
  /\ elInput # <<>>

C12_ThemePersisted ==
  [][/\ lastEvent'.type = "theme"
          => /\ themeDark' = ~themeDark
             /\ localStorageTheme' = IF themeDark' THEN "dark" ELSE "light"
             /\ LET second == toggleTheme(themeDark')
                IN  lastEvent.type = "theme"
                      => /\ second.dark = themeDark
                         /\ second.stored = localStorageTheme
     /\ lastEvent'.type = "reload"
          => /\ themeDark' = (localStorageTheme = "dark")
             /\ localStorageTheme' = localStorageTheme
             /\ messages' = <<Greeting>>
             /\ ~loading'
     /\ (localStorageTheme' = "dark") <=> themeDark']_vars

\* a page with a transcript was reloaded after the theme was set to dark
C12_Witness ==
  /\ lastEvent.type = "reload"
  /\ lastEvent.dropped >= 2
  /\ themeDark
  /\ localStorageTheme = "dark"
  /\ messages = <<Greeting>>
\* C13: while a request is outstanding the input and theme events are still
\* taken; an input event then changes the input text and the counter only, a
\* theme toggle changes the theme (class, button, stored preference) only;
\* neither changes the messages, the loading flag or the outstanding request.
C13_ResponsiveWhileOutstanding ==
  [][pending # {}
       => /\ ENABLED ToggleTheme
          /\ \A v \in TypedValues : ENABLED InputEvent(v)
          /\ lastEvent'.type = "input"
               => /\ elInput' = lastEvent'.value
                  /\ UNCHANGED <<messages, loading, pending, fetches,
                                 elMessages, themeDark, btnTheme,
                                 localStorageTheme, INPUT_LIMIT,
                                 consoleErrors, unhandled, nAccepted>>
          /\ lastEvent'.type = "theme"
               => /\ themeDark' # themeDark
                  /\ UNCHANGED <<messages, loading, pending, fetches,
                                 elMessages, elInput, elCounter, INPUT_LIMIT,
                                 consoleErrors, unhandled, nAccepted>>]_vars

\* the theme was toggled while the body of the response was being read, with
\* text typed since the submit
C13_Witness ==
  /\ lastEvent.type = "theme"
  /\ \E p \in pending : p.at = "json"
  /\ elInput = <<" ", "a", " ">>
  /\ Len(messages) = 2
\* the markup liteMarkdown inserts, and the entities escapeHTML writes
BrTag == <<"<", "b", "r", ">">>
InsertedTags == {StrongOpen, StrongClose, BrTag}
AmpEntity == <<"&", "a", "m", "p", ";">>
LtEntity == <<"&", "l", "t", ";">>
GtEntity == <<"&", "g", "t", ";">>

\* the positions where part occurs in out
Occurrences(out, part) ==
  {i \in 1..(Len(out) - Len(part) + 1) :
     SubSeq(out, i, i + Len(part) - 1) = part}

\* the positions where the character c occurs in text
Positions(text, c) == {i \in 1..Len(text) : text[i] = c}

\* every &, < and > of text is in out as an entity and nowhere else, and
\* every < and > besides them belongs to an inserted tag
EscapedIn(text, out) ==
  /\ Cardinality(Occurrences(out, AmpEntity)) = Cardinality(Positions(text, "&"))
  /\ Cardinality(Occurrences(out, LtEntity)) = Cardinality(Positions(text, "<"))
  /\ Cardinality(Occurrences(out, GtEntity)) = Cardinality(Positions(text, ">"))
  /\ Positions(out, "&") =
       UNION {Occurrences(out, e) : e \in {AmpEntity, LtEntity, GtEntity}}
  /\ Positions(out, "<") = UNION {Occurrences(out, tag) : tag \in InsertedTags}
  /\ Positions(out, ">") =
       UNION {{i + Len(tag) - 1 : i \in Occurrences(out, tag)} :
                tag \in InsertedTags}

\* C14: the formatted text of an answer has every &, < and > of the answer
\* as &amp;, &lt;, &gt; and no markup but the <strong>, </strong> and <br>
\* that the formatting inserts; "<script>" is shown as escaped text, "**bold**"
\* as bold in strong tags, "- a\n- b" as two bullet lines.
C14_FormatEscapesThenMarks ==
  lastEvent.type = "jsonResolved"
    => LET text == lastEvent.data.f.content.s
           out == elMessages[Len(elMessages)].child.innerHTML
       IN  /\ Len(elMessages) = Len(messages)
           /\ EscapedIn(text, out)
           /\ text = ScriptText => out = LtEntity \o SubSeq(text, 2, 7) \o GtEntity
           /\ text = BoldText
                => out = StrongOpen \o <<"b", "o", "l", "d">> \o StrongClose
           /\ text = BulletsText
                => out = <<"U+2022", " ", "a">> \o BrTag \o <<"U+2022", " ", "b">>

\* an answer with bold markers around an escaped character was formatted
C14_Witness ==
  /\ lastEvent.type = "jsonResolved"
  /\ lastEvent.data.f.content.s = <<"*", "*", "<", "*", "*">>
  /\ elMessages[Len(elMessages)].child.innerHTML =
       StrongOpen \o LtEntity \o StrongClose
\* C15: every message of the transcript has the role user or assistant and a
\* string as its content, so that render() formats every message.
C15_MessagesAreStrings ==
  /\ \A i \in 1..Len(messages) :
       /\ messages[i].role \in {"user", "assistant"}
       /\ messages[i].content.t = "string"
  /\ ~renderThrows(messages)

\* C16: the view holds one bubble per message, in the order of the
\* transcript, followed by the typing indicator exactly when loading is true.
C16_ViewNeverStale ==
  /\ Len(elMessages) = Len(messages) + (IF loading THEN 1 ELSE 0)
  /\ \A i \in 1..Len(messages) :
       elMessages[i] = bubble(messages[i].role, liteMarkdown(messages[i].content))
  /\ loading => elMessages[Len(elMessages)] = TypingIndicator

\* the messages after the greeting with the given role
WithRole(role) == {i \in 2..Len(messages) : messages[i].role = role}

\* C17: after the greeting the roles alternate user, assistant, ...; the last
\* message is a user message exactly when loading is true; there are as many
\* assistant messages after the greeting as settled requests and as many user
\* messages as accepted submits.
C17_RolesAlternate ==
  /\ \A i \in 2..Len(messages) :
       messages[i].role = IF i % 2 = 0 THEN "user" ELSE "assistant"
  /\ loading <=> messages[Len(messages)].role = "user"
  /\ Cardinality(WithRole("assistant")) = Len(fetches) - Cardinality(pending)
  /\ Cardinality(WithRole("user")) = nAccepted

\* a second submit waits for its answer after a body without an answer
C17_Witness ==
  /\ Len(messages) = 4
  /\ messages[3].content = Str(EmptyNoticeText)
  /\ loading
  /\ Cardinality(pending) = 1
  /\ Len(fetches) = 2

\* C18: an accepted submit issues a request whose body is not empty and ends
\* with the user message just submitted, its content the trimmed input; the
\* same step clears the input; an input event issues and alters no request.
C18_RequestEndsWithSubmittedText ==
  [][/\ (/\ lastEvent'.type \in SubmitEvents
         /\ ~loading
         /\ Trim(elInput) # <<>>)
          => /\ Len(fetches') = Len(fetches) + 1
             /\ LET body == fetches'[Len(fetches')].body.messages
                IN  /\ body # <<>>
                    /\ body[Len(body)] = UserMessage(Trim(elInput))
             /\ elInput' = <<>>
     /\ lastEvent'.type = "input" => fetches' = fetches]_vars

====
